---- MODULE Spec2Model ----
(***************************************************************************)
(* State-machine model of the dashboard components of the repository:      *)
(*   JobSubmissionForm  (src/unnamed/part_000)                             *)
(*   TaskBoard          (src/src/components/TaskBoard.tsx)                 *)
(*   StockOptimizer     (src/unnamed/part_001)                             *)
(*   mock fetch functions (part_002, part_003, InventoryAnalytics.tsx)     *)
(* Every component keeps its own React state, so each has a specification  *)
(* of its own over the shared variable tuple; the variables of the other   *)
(* components stay at their initial values.                                *)
(*                                                                         *)
(* Encoding of numbers: TLA+ has integers only, so decimal literals of the *)
(* source are scaled (prices in cents, percentages in tenths, Math.random  *)
(* in tenths); the scale is noted where it is used.                        *)
(***************************************************************************)
EXTENDS Integers, Sequences, FiniteSets, TLC

\* ------------------------------------------------------------------ bounds
\* number of submit events a behaviour of the form may contain
MaxSubmits == 2

\* JavaScript values that may be null / undefined or NaN are records:
\* NULL, NaN, or Num(n) for the number n
NULL == [kind |-> "null"]

NaN == [kind |-> "NaN"]

Num(n) == [kind |-> "number", val |-> n]

\* clamp(v, [lo, hi])
Clamp(v, lo, hi) == IF v < lo THEN lo ELSE IF v > hi THEN hi ELSE v

\* Math.round(n / d) for d > 0: rounds half up, \div is the floor division
RoundDiv(n, d) == (2 * n + d) \div (2 * d)

\* ======================================================= JobSubmissionForm
VARIABLES
  isSubmitting,      \* useState(false)
  step,              \* useState(1)
  formData,          \* useState({title, description, budget, timeline, examples, goals})
  submits,           \* submit id -> "idle" | "pending" (timer armed) | "fired"
  toasts,            \* submit id -> number of success toasts its timer emitted
  editedWhilePending \* history: a field edit or step change happened during a pending delay

formVars == <<isSubmitting, step, formData, submits, toasts, editedWhilePending>>

InitialFormData ==
  [title |-> "", description |-> "", budget |-> <<500>>, timeline |-> <<30>>,
   examples |-> "", goals |-> ""]

\* values a text field can hold: empty or some text
FieldValues == {"", "a"}

\* pointer / keyboard positions a slider is driven to, in value units, before
\* the slider snaps and clamps them (some lie outside every slider range)
SliderRaw == {-300, 40, 140, 4960, 12000}

BudgetMin == 100
BudgetMax == 10000
BudgetStep == 100
TimelineMin == 1
TimelineMax == 90
TimelineStep == 1

\* value the Slider component reports through onValueChange: the raw
\* position snapped to the step grid starting at min, then clamped
SliderValue(min, max, stp, raw) ==
  Clamp(RoundDiv(raw - min, stp) * stp + min, min, max)

BudgetSliderValue_NoMin(raw) == SliderValue(0, BudgetMax, BudgetStep, raw)

BudgetSliderValue(raw) == SliderValue(BudgetMin, BudgetMax, BudgetStep, raw)

TimelineSliderValue(raw) == SliderValue(TimelineMin, TimelineMax, TimelineStep, raw)

\* the fields rendered (and so editable) at each step
TextFieldsAt(s) ==
  IF s = 1 THEN {"title", "description"}
  ELSE IF s = 3 THEN {"examples", "goals"}
  ELSE {}

PendingSubmits == {i \in 1..MaxSubmits : submits[i] = "pending"}

NoteEdit == editedWhilePending' = (editedWhilePending \/ PendingSubmits # {})

\* handleChange: setFormData(prev => ({...prev, [name]: value}))
handleChange(name, value) ==
  /\ name \in TextFieldsAt(step)
  /\ formData' = [formData EXCEPT ![name] = value]
  /\ NoteEdit
  /\ UNCHANGED <<isSubmitting, step, submits, toasts>>

\* handleSliderChange: the two sliders are rendered at step 2
handleSliderChange(name, raw) ==
  /\ step = 2
  /\ \/ /\ name = "budget"
        /\ formData' = [formData EXCEPT !.budget = <<BudgetSliderValue(raw)>>]
     \/ /\ name = "timeline"
        /\ formData' = [formData EXCEPT !.timeline = <<TimelineSliderValue(raw)>>]
  /\ NoteEdit
  /\ UNCHANGED <<isSubmitting, step, submits, toasts>>

\* The form's submit event can be raised
\*  - at step 3 by the submit button, unless it is disabled (isSubmitting);
\*    the required inputs are not rendered there, so nothing is validated;
\*  - at step 1 by Enter in the title input: the form then has no submit
\*    button and a single text input, and the browser submits it once the
\*    rendered required fields (title, description) are filled in.
SubmitEventPossible ==
  \/ step = 3 /\ ~isSubmitting
  \/ step = 1 /\ formData.title # "" /\ formData.description # ""

\* handleSubmit: setIsSubmitting(true); setTimeout(..., 2000)
handleSubmit ==
  /\ SubmitEventPossible
  /\ \E i \in 1..MaxSubmits :
       /\ submits[i] = "idle"
       /\ \A j \in 1..(i - 1) : submits[j] # "idle"
       /\ submits' = [submits EXCEPT ![i] = "pending"]
  /\ isSubmitting' = TRUE
  /\ UNCHANGED <<step, formData, toasts, editedWhilePending>>

SubmitTimerFire_NoStepReset(i) ==
  /\ submits[i] = "pending"
  /\ submits' = [submits EXCEPT ![i] = "fired"]
  /\ isSubmitting' = FALSE
  /\ toasts' = [toasts EXCEPT ![i] = @ + 1]
  /\ formData' = InitialFormData
  /\ UNCHANGED <<step, editedWhilePending>>

\* the setTimeout callback of handleSubmit
SubmitTimerFire(i) ==
  /\ submits[i] = "pending"
  /\ submits' = [submits EXCEPT ![i] = "fired"]
  /\ isSubmitting' = FALSE
  /\ toasts' = [toasts EXCEPT ![i] = @ + 1]
  /\ formData' = InitialFormData
  /\ step' = 1
  /\ UNCHANGED editedWhilePending

NextStepRendered_Always == TRUE

\* "Continue" buttons exist in the step-1 and step-2 panels
NextStepRendered == step \in {1, 2}

\* "Back" buttons exist in the step-2 and step-3 panels
PrevStepRendered == step \in {2, 3}

\* nextStep: setStep(step + 1)
nextStep ==
  /\ NextStepRendered
  /\ step' = step + 1
  /\ NoteEdit
  /\ UNCHANGED <<isSubmitting, formData, submits, toasts>>

prevStep_ClearsTimer ==
  /\ PrevStepRendered
  /\ step' = step - 1
  /\ submits' = [i \in 1..MaxSubmits |->
                   IF submits[i] = "pending" THEN "fired" ELSE submits[i]]
  /\ isSubmitting' = FALSE
  /\ NoteEdit
  /\ UNCHANGED <<formData, toasts>>

\* prevStep: setStep(step - 1)
prevStep ==
  /\ PrevStepRendered
  /\ step' = step - 1
  /\ NoteEdit
  /\ UNCHANGED <<isSubmitting, formData, submits, toasts>>

FormInit ==
  /\ isSubmitting = FALSE
  /\ step = 1
  /\ formData = InitialFormData
  /\ submits = [i \in 1..MaxSubmits |-> "idle"]
  /\ toasts = [i \in 1..MaxSubmits |-> 0]
  /\ editedWhilePending = FALSE

\* =============================================================== TaskBoard
VARIABLES
  appliedTasks,      \* useState<string[]>([])
  boardToasts,       \* number of "Application submitted!" toasts
  activeTab          \* the Tabs value: "all" | "matched" | "applied"

boardVars == <<appliedTasks, boardToasts, activeTab>>

\* ids of MOCK_TASKS, in array order
MOCK_TASKS == <<"task-001", "task-002", "task-003", "task-004">>

TaskIds == {MOCK_TASKS[k] : k \in 1..Len(MOCK_TASKS)}

\* appliedTasks.includes(taskId)
Includes(arr, x) == \E k \in 1..Len(arr) : arr[k] = x

\* number of occurrences of x in arr
Occurrences(arr, x) == Cardinality({k \in 1..Len(arr) : arr[k] = x})

ApplyEnabled_NeverDisabled(taskId) == TRUE

\* the Apply button of a card: disabled={appliedTasks.includes(task.id)}
ApplyEnabled(taskId) == ~Includes(appliedTasks, taskId)

\* handleApply, reached by a click on an enabled Apply button of the All tab
handleApply(taskId) ==
  /\ activeTab = "all"
  /\ ApplyEnabled(taskId)
  /\ appliedTasks' = Append(appliedTasks, taskId)
  /\ boardToasts' = boardToasts + 1
  /\ UNCHANGED activeTab

\* a click on one of the three tab triggers
selectTab(tab) ==
  /\ tab # activeTab
  /\ activeTab' = tab
  /\ UNCHANGED <<appliedTasks, boardToasts>>

AppliedTabContent_InAppliedOrder ==
  IF Len(appliedTasks) = 0
  THEN [empty |-> TRUE, cards |-> <<>>]
  ELSE [empty |-> FALSE, cards |-> appliedTasks]

\* what the Applied tab renders: the empty-state message, or the cards of
\* MOCK_TASKS.filter(task => appliedTasks.includes(task.id))
AppliedTabContent ==
  IF Len(appliedTasks) = 0
  THEN [empty |-> TRUE, cards |-> <<>>]
  ELSE [empty |-> FALSE,
        cards |-> SelectSeq(MOCK_TASKS, LAMBDA task : Includes(appliedTasks, task))]

BoardInit ==
  /\ appliedTasks = <<>>
  /\ boardToasts = 0
  /\ activeTab = "all"

\* ========================================================== StockOptimizer
\* number of optimizeStock calls a behaviour may start
MaxOptimizations == 2

VARIABLES
  products,           \* data of useQuery(['products']): <<>> while loading
  selectedProductId,  \* useState<number | null>(null)
  serviceLevel,       \* useState(95), in tenths of a percent (950 = 95.0)
  customLeadTime,     \* useState<number | null>(null)
  isOptimizing,       \* useState(false)
  optimizationResult, \* useState<OptimizationResult | null>(null)
  inflight,           \* optimizeStock calls whose promise is not settled
  nStarted,           \* number of optimizeStock calls started so far
  errorLog,           \* number of console.error("Optimization failed:") lines
  resultCall,         \* history: the call whose result optimizationResult holds
  callsAtReset        \* history: nStarted when resetOptimization last ran

optVars == <<products, selectedProductId, serviceLevel, customLeadTime,
             isOptimizing, optimizationResult, inflight, nStarted, errorLog,
             resultCall, callsAtReset>>

\* fetchProducts of StockOptimizer (price and cost in cents)
Optimizer_fetchProducts ==
  << [id |-> 1, name |-> "Organic Cotton T-Shirt", sku |-> "TSHIRT-001",
      current_stock |-> 45, reorder_point |-> 20, optimal_stock |-> 60,
      category |-> "Clothing", price |-> 2999, cost |-> 1250,
      stock_status |-> "adequate", lead_time |-> 7],
     [id |-> 2, name |-> "Wireless Headphones", sku |-> "AUDIO-156",
      current_stock |-> 8, reorder_point |-> 15, optimal_stock |-> 35,
      category |-> "Electronics", price |-> 8999, cost |-> 4275,
      stock_status |-> "low_stock", lead_time |-> 14],
     [id |-> 3, name |-> "Standing Desk", sku |-> "FURN-238",
      current_stock |-> 0, reorder_point |-> 5, optimal_stock |-> 10,
      category |-> "Furniture", price |-> 34999, cost |-> 17550,
      stock_status |-> "out_of_stock", lead_time |-> 21],
     [id |-> 4, name |-> "Stainless Water Bottle", sku |-> "BOTTLE-442",
      current_stock |-> 120, reorder_point |-> 50, optimal_stock |-> 80,
      category |-> "Accessories", price |-> 2499, cost |-> 825,
      stock_status |-> "overstocked", lead_time |-> 5],
     [id |-> 5, name |-> "Smart Watch", sku |-> "TECH-512",
      current_stock |-> 25, reorder_point |-> 10, optimal_stock |-> 30,
      category |-> "Electronics", price |-> 19999, cost |-> 8500,
      stock_status |-> "adequate", lead_time |-> 10] >>

\* JavaScript truthiness of a number | null | undefined | NaN
Truthy(v) == v.kind = "number" /\ v.val # 0

\* a || b
OrElse(a, b) == IF Truthy(a) THEN a ELSE b

\* products?.find(p => p.id === selectedProductId) || null
selectedProduct ==
  IF \E k \in 1..Len(products) : Num(products[k].id) = selectedProductId
  THEN products[CHOOSE k \in 1..Len(products) :
                  /\ Num(products[k].id) = selectedProductId
                  /\ \A j \in 1..(k - 1) : Num(products[j].id) # selectedProductId]
  ELSE NULL

\* selectedProduct?.lead_time
selectedLeadTime ==
  IF selectedProduct = NULL THEN NULL
  ELSE IF "lead_time" \in DOMAIN selectedProduct THEN Num(selectedProduct.lead_time)
  ELSE NULL

\* the record optimizeStock resolves to; serviceLevel is a fraction in
\* thousandths, money is in cents, probabilities in hundredths, the other
\* decimals in tenths.  Math.round(3.5 * L + 12) is RoundDiv(7 * L + 24, 2).
optimizeStock(productId, serviceLvl, leadTime) ==
  [product_id |-> productId.val,
   current_stock |-> 25,
   avg_daily_demand |-> 35,
   demand_variability |-> 12,
   safety_stock |-> 12,
   reorder_point |-> IF Truthy(leadTime) THEN RoundDiv(7 * leadTime.val + 24, 2) ELSE 35,
   economic_order_quantity |-> 42,
   optimal_stock |-> IF Truthy(leadTime) THEN RoundDiv(7 * leadTime.val + 24 + 84, 2) ELSE 77,
   service_level |-> serviceLvl,
   lead_time |-> OrElse(leadTime, Num(10)).val,
   cost_analysis |->
     [current_policy |-> [holding_cost |-> 42550, stockout_probability |-> 15,
                          expected_stockouts |-> 32, stockout_cost |-> 36875,
                          total_cost |-> 79425],
      optimal_policy |-> [holding_cost |-> 57375, stockout_probability |-> 3,
                          expected_stockouts |-> 5, stockout_cost |-> 5750,
                          total_cost |-> 63125],
      potential_savings |-> 16300,
      savings_percent |-> 205]]

\* texts the lead-time number input can hold, as character sequences
LeadTimeTexts ==
  { <<>>, <<"0">>, <<"3">>, <<"-", "2">>, <<"1", ".", "5">>, <<".", "5">> }

Digits == {"0", "1", "2", "3", "4", "5", "6", "7", "8", "9"}

DigitValue(c) ==
  CASE c = "0" -> 0 [] c = "1" -> 1 [] c = "2" -> 2 [] c = "3" -> 3
    [] c = "4" -> 4 [] c = "5" -> 5 [] c = "6" -> 6 [] c = "7" -> 7
    [] c = "8" -> 8 [] c = "9" -> 9

RECURSIVE DigitsPrefixValue(_, _)
\* value of the longest run of digits at the head of txt, continuing acc
DigitsPrefixValue(txt, acc) ==
  IF txt = <<>> \/ Head(txt) \notin Digits THEN acc
  ELSE DigitsPrefixValue(Tail(txt), 10 * acc + DigitValue(Head(txt)))

\* parseInt(text): optional sign, then the leading digits; NaN without one
parseInt(txt) ==
  LET neg  == txt # <<>> /\ Head(txt) = "-"
      body == IF neg THEN Tail(txt) ELSE txt
  IN  IF body = <<>> \/ Head(body) \notin Digits THEN NaN
      ELSE IF neg THEN Num(0 - DigitsPrefixValue(body, 0))
      ELSE Num(DigitsPrefixValue(body, 0))

ServiceLevelMin == 900
ServiceLevelMax == 999
ServiceLevelStep == 1

\* positions the service-level slider is driven to (tenths of a percent)
ServiceRaw == {975, 1200}

\* resetOptimization: setOptimizationResult(null); setCustomLeadTime(null)
resetOptimization ==
  /\ optimizationResult' = NULL
  /\ customLeadTime' = NULL
  /\ resultCall' = 0
  /\ callsAtReset' = nStarted

\* the products query settles with the component's queryFn
productsLoaded ==
  /\ products = <<>>
  /\ products' = Optimizer_fetchProducts
  /\ UNCHANGED <<selectedProductId, serviceLevel, customLeadTime, isOptimizing,
                 optimizationResult, inflight, nStarted, errorLog, resultCall,
                 callsAtReset>>

\* Select.onValueChange: setSelectedProductId(Number(value)); resetOptimization().
\* The Select is controlled by selectedProductId, so it reports changes only.
selectProduct(p) ==
  /\ \E k \in 1..Len(products) : products[k].id = p
  /\ Num(p) # selectedProductId
  /\ selectedProductId' = Num(p)
  /\ resetOptimization
  /\ UNCHANGED <<products, serviceLevel, isOptimizing, inflight, nStarted, errorLog>>

\* the service-level Slider, rendered once a product is selected
changeServiceLevel(raw) ==
  /\ selectedProduct # NULL
  /\ serviceLevel' = SliderValue(ServiceLevelMin, ServiceLevelMax, ServiceLevelStep, raw)
  /\ UNCHANGED <<products, selectedProductId, customLeadTime, isOptimizing,
                 optimizationResult, inflight, nStarted, errorLog, resultCall,
                 callsAtReset>>

\* onChange of the lead-time input:
\* value = e.target.value ? parseInt(e.target.value) : null
changeLeadTime(txt) ==
  /\ selectedProduct # NULL
  /\ customLeadTime' = IF txt = <<>> THEN NULL ELSE parseInt(txt)
  /\ UNCHANGED <<products, selectedProductId, serviceLevel, isOptimizing,
                 optimizationResult, inflight, nStarted, errorLog, resultCall,
                 callsAtReset>>

\* handleOptimize up to its await: the button is rendered for a selected
\* product and disabled while isOptimizing
handleOptimize ==
  /\ selectedProduct # NULL
  /\ ~isOptimizing
  /\ Truthy(selectedProductId)
  /\ nStarted < MaxOptimizations
  /\ isOptimizing' = TRUE
  /\ nStarted' = nStarted + 1
  /\ inflight' = inflight \cup
       {[call |-> nStarted + 1,
         productId |-> selectedProductId,
         serviceLevel |-> serviceLevel,
         leadTime |-> OrElse(customLeadTime, selectedLeadTime)]}
  /\ UNCHANGED <<products, selectedProductId, serviceLevel, customLeadTime,
                 optimizationResult, errorLog, resultCall, callsAtReset>>

optimizeResolved_KeepsOptimizing(c) ==
  /\ c \in inflight
  /\ inflight' = inflight \ {c}
  /\ optimizationResult' = optimizeStock(c.productId, c.serviceLevel, c.leadTime)
  /\ resultCall' = c.call
  /\ UNCHANGED <<products, selectedProductId, serviceLevel, customLeadTime,
                 isOptimizing, nStarted, errorLog, callsAtReset>>

\* handleOptimize after the await, promise fulfilled:
\* setOptimizationResult(result); finally setIsOptimizing(false)
optimizeResolved(c) ==
  /\ c \in inflight
  /\ inflight' = inflight \ {c}
  /\ optimizationResult' = optimizeStock(c.productId, c.serviceLevel, c.leadTime)
  /\ resultCall' = c.call
  /\ isOptimizing' = FALSE
  /\ UNCHANGED <<products, selectedProductId, serviceLevel, customLeadTime,
                 nStarted, errorLog, callsAtReset>>

optimizeRejected_ClearsResult(c) ==
  /\ c \in inflight
  /\ inflight' = inflight \ {c}
  /\ errorLog' = errorLog + 1
  /\ isOptimizing' = FALSE
  /\ optimizationResult' = NULL
  /\ resultCall' = 0
  /\ UNCHANGED <<products, selectedProductId, serviceLevel, customLeadTime,
                 nStarted, callsAtReset>>

\* handleOptimize after the await, promise rejected:
\* catch logs the error; finally setIsOptimizing(false)
optimizeRejected(c) ==
  /\ c \in inflight
  /\ inflight' = inflight \ {c}
  /\ errorLog' = errorLog + 1
  /\ isOptimizing' = FALSE
  /\ UNCHANGED <<products, selectedProductId, serviceLevel, customLeadTime,
                 optimizationResult, nStarted, resultCall, callsAtReset>>

\* the Reset button of the results card
resetClicked ==
  /\ optimizationResult # NULL
  /\ selectedProduct # NULL
  /\ resetOptimization
  /\ UNCHANGED <<products, selectedProductId, serviceLevel, isOptimizing,
                 inflight, nStarted, errorLog>>

OptimizerInit ==
  /\ products = <<>>
  /\ selectedProductId = NULL
  /\ serviceLevel = 950
  /\ customLeadTime = NULL
  /\ isOptimizing = FALSE
  /\ optimizationResult = NULL
  /\ inflight = {}
  /\ nStarted = 0
  /\ errorLog = 0
  /\ resultCall = 0
  /\ callsAtReset = 0

\* ==================================================== mock fetch functions
\* number of loop iterations of the two generated series (the source runs
\* 30 for the predictions and 30 + 1 for the sales time series)
SeriesDays == 1

\* number of days that may pass between two calls
MaxDaysElapsed == 1

VARIABLES
  today,       \* the day new Date() returns; day n has getDay() = n % 7
  firstCall,   \* the settled result of a fetch call: [fn, args, data], or NULL
  secondCall   \* the settled result of a later call of the same function
               \* with the same arguments, or NULL

fetchVars == <<today, firstCall, secondCall>>

\* the day the behaviours start on (a Friday)
StartDay == 5

\* values of Math.random(), in tenths
RandomDraws == {0, 9}

\* dayOfWeek === 0 || dayOfWeek === 6
isWeekend(day) == day % 7 = 0 \/ day % 7 = 6

Max(a, b) == IF a > b THEN a ELSE b

\* fetchProducts of InventoryDashboard (price and cost in cents)
Dashboard_fetchProducts ==
  << [id |-> 1, name |-> "Organic Cotton T-Shirt", sku |-> "TSHIRT-001",
      current_stock |-> 45, reorder_point |-> 20, optimal_stock |-> 60,
      category |-> "Clothing", price |-> 2999, cost |-> 1250,
      stock_status |-> "adequate"],
     [id |-> 2, name |-> "Wireless Headphones", sku |-> "AUDIO-156",
      current_stock |-> 8, reorder_point |-> 15, optimal_stock |-> 35,
      category |-> "Electronics", price |-> 8999, cost |-> 4275,
      stock_status |-> "low_stock"],
     [id |-> 3, name |-> "Standing Desk", sku |-> "FURN-238",
      current_stock |-> 0, reorder_point |-> 5, optimal_stock |-> 10,
      category |-> "Furniture", price |-> 34999, cost |-> 17550,
      stock_status |-> "out_of_stock"],
     [id |-> 4, name |-> "Stainless Water Bottle", sku |-> "BOTTLE-442",
      current_stock |-> 120, reorder_point |-> 50, optimal_stock |-> 80,
      category |-> "Accessories", price |-> 2499, cost |-> 825,
      stock_status |-> "overstocked"],
     [id |-> 5, name |-> "Smart Watch", sku |-> "TECH-512",
      current_stock |-> 25, reorder_point |-> 10, optimal_stock |-> 30,
      category |-> "Electronics", price |-> 19999, cost |-> 8500,
      stock_status |-> "adequate"] >>

\* fetchAlerts of InventoryDashboard
fetchAlerts ==
  << [product_id |-> 3, product_name |-> "Standing Desk",
      alert_type |-> "out_of_stock",
      message |-> "Item is out of stock. Reorder immediately.",
      severity |-> "critical"],
     [product_id |-> 2, product_name |-> "Wireless Headphones",
      alert_type |-> "low_stock",
      message |-> "Stock level below reorder point (8 < 15).",
      severity |-> "warning"],
     [product_id |-> 4, product_name |-> "Stainless Water Bottle",
      alert_type |-> "overstocked",
      message |-> "Current stock exceeds optimal level (120 > 80).",
      severity |-> "info"] >>

\* fetchSalesData of InventoryDashboard
fetchSalesData ==
  << [date |-> "2023-04-01", revenue |-> 2890, units |-> 54],
     [date |-> "2023-04-02", revenue |-> 2350, units |-> 42],
     [date |-> "2023-04-03", revenue |-> 3800, units |-> 67],
     [date |-> "2023-04-04", revenue |-> 2950, units |-> 51],
     [date |-> "2023-04-05", revenue |-> 3100, units |-> 58],
     [date |-> "2023-04-06", revenue |-> 2700, units |-> 45],
     [date |-> "2023-04-07", revenue |-> 4200, units |-> 73],
     [date |-> "2023-04-08", revenue |-> 3900, units |-> 62],
     [date |-> "2023-04-09", revenue |-> 3400, units |-> 59],
     [date |-> "2023-04-10", revenue |-> 3200, units |-> 55] >>

\* fetchPredictions of InventoryDashboard
Dashboard_fetchPredictions ==
  << [date |-> "2023-04-11", predicted_demand |-> 58, confidence_lower |-> 45,
      confidence_upper |-> 71],
     [date |-> "2023-04-12", predicted_demand |-> 62, confidence_lower |-> 48,
      confidence_upper |-> 76],
     [date |-> "2023-04-13", predicted_demand |-> 57, confidence_lower |-> 44,
      confidence_upper |-> 70],
     [date |-> "2023-04-14", predicted_demand |-> 65, confidence_lower |-> 50,
      confidence_upper |-> 80],
     [date |-> "2023-04-15", predicted_demand |-> 70, confidence_lower |-> 54,
      confidence_upper |-> 86],
     [date |-> "2023-04-16", predicted_demand |-> 59, confidence_lower |-> 46,
      confidence_upper |-> 72],
     [date |-> "2023-04-17", predicted_demand |-> 63, confidence_lower |-> 49,
      confidence_upper |-> 77] >>

\* fetchProducts of AIPredictionEngine
Engine_fetchProducts ==
  << [id |-> 1, name |-> "Premium Wireless Headphones", sku |-> "ELEC-101",
      category |-> "Electronics"],
     [id |-> 2, name |-> "Organic Cotton T-Shirt", sku |-> "CLOTH-202",
      category |-> "Clothing"],
     [id |-> 3, name |-> "Smart Watch Series 7", sku |-> "ELEC-305",
      category |-> "Electronics"],
     [id |-> 4, name |-> "Ergonomic Office Chair", sku |-> "HOME-118",
      category |-> "Home & Kitchen"],
     [id |-> 5, name |-> "Yoga Mat Pro", sku |-> "SPORT-423",
      category |-> "Sports & Outdoors"] >>

\* fetchExternalFactors of AIPredictionEngine; both arguments are ignored
\* (impact_level in tenths)
fetchExternalFactors ==
  << [date |-> "2023-04-15", factor_name |-> "Easter Weekend",
      factor_type |-> "holiday", impact_level |-> 8],
     [date |-> "2023-05-01", factor_name |-> "Labor Day",
      factor_type |-> "holiday", impact_level |-> 6],
     [date |-> "2023-04-20", factor_name |-> "Heavy Rain",
      factor_type |-> "weather", impact_level |-> -5],
     [date |-> "2023-04-10", factor_name |-> "Spring Sale",
      factor_type |-> "promotion", impact_level |-> 9],
     [date |-> "2023-04-25", factor_name |-> "Flash Sale",
      factor_type |-> "promotion", impact_level |-> 7] >>

\* fetchModelEvaluations of AIPredictionEngine (accuracy in hundredths, mae, mse
\* and training_time in tenths)
fetchModelEvaluations ==
  << [model_name |-> "Prophet", accuracy |-> 86, mae |-> 42, mse |-> 275,
      training_time |-> 125, last_trained |-> "2023-04-05"],
     [model_name |-> "LSTM Neural Network", accuracy |-> 89, mae |-> 38,
      mse |-> 231, training_time |-> 452, last_trained |-> "2023-04-02"],
     [model_name |-> "Random Forest", accuracy |-> 82, mae |-> 51, mse |-> 356,
      training_time |-> 87, last_trained |-> "2023-04-07"],
     [model_name |-> "Ensemble Model", accuracy |-> 91, mae |-> 32, mse |-> 194,
      training_time |-> 683, last_trained |-> "2023-04-01"] >>

\* fetchCategorySales of InventoryAnalytics
fetchCategorySales ==
  << [category |-> "Electronics", sales |-> 1245, revenue |-> 65420],
     [category |-> "Clothing", sales |-> 876, revenue |-> 32180],
     [category |-> "Home & Kitchen", sales |-> 543, revenue |-> 27650],
     [category |-> "Sports & Outdoors", sales |-> 432, revenue |-> 21560],
     [category |-> "Beauty & Personal Care", sales |-> 321, revenue |-> 12840] >>

\* fetchTopProducts of InventoryAnalytics (avgPrice in cents, margin in hundredths)
fetchTopProducts ==
  << [id |-> 1, name |-> "Premium Wireless Headphones", sku |-> "ELEC-101",
      category |-> "Electronics", sales |-> 245, revenue |-> 24500,
      avgPrice |-> 9999, profit |-> 12250, margin |-> 50],
     [id |-> 2, name |-> "Organic Cotton T-Shirt", sku |-> "CLOTH-202",
      category |-> "Clothing", sales |-> 198, revenue |-> 5940,
      avgPrice |-> 2999, profit |-> 2970, margin |-> 50],
     [id |-> 3, name |-> "Smart Watch Series 7", sku |-> "ELEC-305",
      category |-> "Electronics", sales |-> 156, revenue |-> 31200,
      avgPrice |-> 19999, profit |-> 15600, margin |-> 50],
     [id |-> 4, name |-> "Ergonomic Office Chair", sku |-> "HOME-118",
      category |-> "Home & Kitchen", sales |-> 87, revenue |-> 13050,
      avgPrice |-> 14999, profit |-> 5220, margin |-> 40],
     [id |-> 5, name |-> "Yoga Mat Pro", sku |-> "SPORT-423",
      category |-> "Sports & Outdoors", sales |-> 132, revenue |-> 3960,
      avgPrice |-> 2999, profit |-> 1980, margin |-> 50] >>

\* fetchTrendData of InventoryAnalytics (value in hundredths, change in tenths)
fetchTrendData ==
  << [key |-> "total_sales", name |-> "Total Sales", value |-> 341700,
      change |-> 125, trend |-> "up"],
     [key |-> "total_revenue", name |-> "Total Revenue", value |-> 15965000,
      change |-> 83, trend |-> "up"],
     [key |-> "avg_order_value", name |-> "Avg. Order Value", value |-> 4672,
      change |-> -21, trend |-> "down"],
     [key |-> "profit_margin", name |-> "Profit Margin", value |-> 4280,
      change |-> 5, trend |-> "up"] >>

InsightSeasonal ==
  [title |-> "Seasonal Demand Pattern Detected",
   description |-> "This product shows a strong weekly seasonality with peaks on weekends.",
   impact |-> "high", confidence |-> 92,
   recommendation |-> "Consider adjusting staffing and inventory levels for weekend demand."]

InsightWeather ==
  [title |-> "Weather Sensitivity",
   description |-> "Sales drop significantly during rainy days, especially for outdoor-related products.",
   impact |-> "medium", confidence |-> 78,
   recommendation |-> "Plan alternative promotions for poor weather conditions."]

InsightPromotion ==
  [title |-> "Promotion Effectiveness",
   description |-> "Flash sales for this product category result in 40% higher sales compared to standard discounts.",
   impact |-> "high", confidence |-> 85,
   recommendation |-> "Prioritize flash sales over long-term discounts for this product."]

InsightPrice ==
  [title |-> "Price Elasticity",
   description |-> "This product shows high price elasticity. Small price reductions lead to significant sales increases.",
   impact |-> "high", confidence |-> 88,
   recommendation |-> "Consider strategic price reductions during slow periods."]

InsightRisk ==
  [title |-> "Inventory Risk Alert",
   description |-> "Current stock levels may not be sufficient for predicted demand spikes in the next 2 weeks.",
   impact |-> "high", confidence |-> 81,
   recommendation |-> "Increase order quantity by 25% for next restock."]

\* Math.round(amplitude * Math.sin(i * frequency) + trend * i) for i = 0..29,
\* per model (amplitude, frequency, trend): prophet (8, 0.3, 0.4),
\* lstm (12, 0.15, 0.1), ensemble (10, 0.25, 0.3), any other model (10, 0.2, 0.2)
SeasonTrend(model) ==
    CASE model = "prophet" ->
       <<0, 3, 5, 7, 9, 10, 10, 10, 9, 7, 5, 3, 1, 0, -1,
         -2, -2, -1, 1, 3, 6, 9, 11, 14, 16, 18, 18, 19, 18, 17>>
      [] model = "lstm" ->
       <<0, 2, 4, 6, 7, 9, 10, 11, 12, 13, 13, 13, 13, 12, 12,
         11, 10, 8, 7, 5, 4, 2, 0, -1, -3, -4, -6, -7, -8, -8>>
      [] model = "ensemble" ->
       <<0, 3, 5, 8, 10, 11, 12, 12, 11, 10, 9, 7, 5, 3, 1,
         -1, -3, -4, -4, -4, -4, -2, 0, 2, 4, 7, 10, 13, 15, 17>>
    [] OTHER ->
       <<0, 2, 4, 6, 8, 9, 11, 11, 12, 12, 11, 10, 9, 8, 6,
         4, 3, 1, -1, -2, -4, -5, -5, -5, -5, -5, -4, -2, -1, 1>>

\* number of leading predictions that get an actual_demand
HistoricalDays == 10

\* fetchPredictions of AIPredictionEngine: one record per day from now on;
\* rnd[i + 1] is the Math.random() of iteration i.  baseValue and the weekend
\* bonus are integers, so they add to the rounded seasonal term.
\* Math.round(p * 0.2) is RoundDiv(p, 5); Math.round(p * (0.85 + r * 0.3))
\* with r = t / 10 is RoundDiv(p * (85 + 3 * t), 100).
Engine_fetchPredictions(productId, model, rnd, now) ==
  [k \in 1..SeriesDays |->
     LET i == k - 1
         baseValue == 20 + productId * 5
         predictedDemand ==
           Max(0, baseValue + (IF isWeekend(now + i) THEN 5 ELSE 0)
                    + SeasonTrend(model)[i + 1])
         confidenceMargin == RoundDiv(predictedDemand, 5)
     IN  [date |-> now + i,
          predicted_demand |-> predictedDemand,
          confidence_lower |-> Max(0, predictedDemand - confidenceMargin),
          confidence_upper |-> predictedDemand + confidenceMargin,
          actual_demand |->
            IF i < HistoricalDays
            THEN Num(RoundDiv(predictedDemand * (85 + 3 * rnd[i + 1]), 100))
            ELSE NULL]]

\* fetchAIInsights of AIPredictionEngine (confidence in hundredths)
fetchAIInsights(productId) ==
  <<InsightSeasonal, InsightWeather>>
    \o (IF productId % 2 = 0 THEN <<InsightPromotion>> ELSE <<InsightPrice>>)
    \o (IF productId % 3 = 0 THEN <<InsightRisk>> ELSE <<>>)

\* fetchSalesTimeSeries of InventoryAnalytics: one record per day from
\* SeriesDays days ago up to now; iteration k draws rnd[2k - 1] for the sales
\* and rnd[2k] for the average price.  With r = t / 10,
\* Math.floor(base + r * 20) is base + 2 * t and 30 + r * 10 is 30 + t.
fetchSalesTimeSeries(rnd, now) ==
  [k \in 1..(SeriesDays + 1) |->
     LET i == SeriesDays + 1 - k
         baseSales == IF isWeekend(now - i) THEN 40 ELSE 25
         sales == baseSales + 2 * rnd[2 * k - 1]
         avgPrice == 30 + rnd[2 * k]
     IN  [date |-> now - i, sales |-> sales, revenue |-> sales * avgPrice]]

\* the mock fetch functions and the arguments their components call them with
FetchNames ==
  {"Dashboard_fetchProducts", "fetchAlerts", "fetchSalesData",
   "Dashboard_fetchPredictions", "Engine_fetchProducts", "Engine_fetchPredictions",
   "fetchExternalFactors", "fetchModelEvaluations", "fetchAIInsights",
   "fetchCategorySales", "fetchTopProducts", "fetchSalesTimeSeries",
   "fetchTrendData", "Optimizer_fetchProducts"}

EngineModels == {"prophet", "lstm", "randomforest", "ensemble"}

EngineProductIds == {Engine_fetchProducts[k].id : k \in 1..Len(Engine_fetchProducts)}

FetchArgs(fn) ==
  CASE fn = "Engine_fetchPredictions" ->
         {<<p, m>> : p \in EngineProductIds, m \in EngineModels}
    [] fn = "fetchAIInsights" -> {<<p>> : p \in EngineProductIds}
    [] fn = "fetchExternalFactors" -> {<<"2023-04-01", "2023-05-30">>}
    [] OTHER -> {<<>>}

\* number of Math.random() calls one call of fn makes
RandomCalls(fn) ==
  CASE fn = "Engine_fetchPredictions" ->
         IF SeriesDays < HistoricalDays THEN SeriesDays ELSE HistoricalDays
    [] fn = "fetchSalesTimeSeries" -> 2 * (SeriesDays + 1)
    [] OTHER -> 0

\* the functions that return a literal, whatever the clock or Math.random
LiteralResult(fn, args) ==
  CASE fn = "Dashboard_fetchProducts" -> Dashboard_fetchProducts
    [] fn = "fetchAlerts" -> fetchAlerts
    [] fn = "fetchSalesData" -> fetchSalesData
    [] fn = "Dashboard_fetchPredictions" -> Dashboard_fetchPredictions
    [] fn = "Engine_fetchProducts" -> Engine_fetchProducts
    [] fn = "fetchExternalFactors" -> fetchExternalFactors
    [] fn = "fetchModelEvaluations" -> fetchModelEvaluations
    [] fn = "fetchAIInsights" -> fetchAIInsights(args[1])
    [] fn = "fetchCategorySales" -> fetchCategorySales
    [] fn = "fetchTopProducts" -> fetchTopProducts
    [] fn = "fetchTrendData" -> fetchTrendData
    [] fn = "Optimizer_fetchProducts" -> Optimizer_fetchProducts

FetchResult_SalesDataByClock(fn, args, rnd, now) ==
  CASE fn = "Engine_fetchPredictions" -> Engine_fetchPredictions(args[1], args[2], rnd, now)
    [] fn = "fetchSalesTimeSeries" -> fetchSalesTimeSeries(rnd, now)
    [] fn = "fetchSalesData" ->
         [k \in 1..Len(fetchSalesData) |-> [fetchSalesData[k] EXCEPT !.units = @ + now]]
    [] OTHER -> LiteralResult(fn, args)

\* the record list a call of fn resolves to, made on day now with the
\* Math.random() values rnd
FetchResult(fn, args, rnd, now) ==
  CASE fn = "Engine_fetchPredictions" -> Engine_fetchPredictions(args[1], args[2], rnd, now)
    [] fn = "fetchSalesTimeSeries" -> fetchSalesTimeSeries(rnd, now)
    [] OTHER -> LiteralResult(fn, args)

\* a query function is called and settles
callFetch(fn, args, rnd) ==
  LET settled == [fn |-> fn, args |-> args, data |-> FetchResult(fn, args, rnd, today)]
  IN  \/ /\ firstCall = NULL
         /\ firstCall' = settled
         /\ UNCHANGED <<today, secondCall>>
      \/ /\ firstCall # NULL
         /\ secondCall = NULL
         /\ firstCall.fn = fn
         /\ firstCall.args = args
         /\ secondCall' = settled
         /\ UNCHANGED <<today, firstCall>>

\* midnight passes
dayPasses ==
  /\ today < StartDay + MaxDaysElapsed
  /\ today' = today + 1
  /\ UNCHANGED <<firstCall, secondCall>>

FetchInit ==
  /\ today = StartDay
  /\ firstCall = NULL
  /\ secondCall = NULL

\* ====================================== the query cache under ['products']
\* InventoryDashboard registers its own fetchProducts under the query key
\* StockOptimizer uses; with one QueryClient the entry is filled by the
\* queryFn of whichever component fetches it
dashboardProductsLoaded ==
  /\ products = <<>>
  /\ products' = Dashboard_fetchProducts
  /\ UNCHANGED <<selectedProductId, serviceLevel, customLeadTime, isOptimizing,
                 optimizationResult, inflight, nStarted, errorLog, resultCall,
                 callsAtReset>>

\* ====================================================== AIPredictionEngine
\* number of training runs a behaviour may start
MaxTrainings == 2

VARIABLES
  engineProducts,          \* data of useQuery(['predictionProducts']): <<>> while loading
  engineSelectedProductId, \* selectedProductId: useState<number | null>(null)
  selectedModel,           \* useState("ensemble")
  predictionHorizon,       \* useState(30)
  isTraining,              \* useState(false)
  includeExternalFactors,  \* useState(true)
  confidenceLevel,         \* useState(90)
  trainings,               \* per training run: "idle", "pending" (timer armed), "fired"
  refetches                \* per training run: refetchPredictions() calls of its timer

engineVars == <<engineProducts, engineSelectedProductId, selectedModel,
                predictionHorizon, isTraining, includeExternalFactors,
                confidenceLevel, trainings, refetches>>

HorizonMin == 7
HorizonMax == 90
HorizonStep == 1
ConfidenceMin == 70
ConfidenceMax == 99
ConfidenceStep == 1

\* positions the two sliders are driven to
HorizonRaw == {3, 60}
ConfidenceRaw == {120}

\* the products query settles
engineProductsLoaded ==
  /\ engineProducts = <<>>
  /\ engineProducts' = Engine_fetchProducts
  /\ UNCHANGED <<engineSelectedProductId, selectedModel, predictionHorizon,
                 isTraining, includeExternalFactors, confidenceLevel, trainings,
                 refetches>>

\* product Select: onValueChange={(value) => setSelectedProductId(Number(value))};
\* its items are the loaded products and it is never disabled
engineSelectProduct(p) ==
  /\ \E k \in 1..Len(engineProducts) : engineProducts[k].id = p
  /\ Num(p) # engineSelectedProductId
  /\ engineSelectedProductId' = Num(p)
  /\ UNCHANGED <<engineProducts, selectedModel, predictionHorizon, isTraining,
                 includeExternalFactors, confidenceLevel, trainings, refetches>>

\* model Select: onValueChange={setSelectedModel}
engineSelectModel(m) ==
  /\ m # selectedModel
  /\ selectedModel' = m
  /\ UNCHANGED <<engineProducts, engineSelectedProductId, predictionHorizon,
                 isTraining, includeExternalFactors, confidenceLevel, trainings,
                 refetches>>

\* horizon Slider: setPredictionHorizon(values[0])
changeHorizon(raw) ==
  /\ predictionHorizon' = SliderValue(HorizonMin, HorizonMax, HorizonStep, raw)
  /\ UNCHANGED <<engineProducts, engineSelectedProductId, selectedModel,
                 isTraining, includeExternalFactors, confidenceLevel, trainings,
                 refetches>>

\* confidence Slider: setConfidenceLevel(values[0])
changeConfidence(raw) ==
  /\ confidenceLevel' = SliderValue(ConfidenceMin, ConfidenceMax, ConfidenceStep, raw)
  /\ UNCHANGED <<engineProducts, engineSelectedProductId, selectedModel,
                 predictionHorizon, isTraining, includeExternalFactors, trainings,
                 refetches>>

\* Switch: onCheckedChange={setIncludeExternalFactors}
toggleExternalFactors ==
  /\ includeExternalFactors' = ~includeExternalFactors
  /\ UNCHANGED <<engineProducts, engineSelectedProductId, selectedModel,
                 predictionHorizon, isTraining, confidenceLevel, trainings,
                 refetches>>

TrainEnabled_WhileTraining == Truthy(engineSelectedProductId)

\* the train button: disabled={isTraining || !selectedProductId}
TrainEnabled == ~(isTraining \/ ~Truthy(engineSelectedProductId))

\* handleTrainModel: setIsTraining(true); setTimeout(..., 3000)
handleTrainModel ==
  /\ TrainEnabled
  /\ \E i \in 1..MaxTrainings :
       /\ trainings[i] = "idle"
       /\ \A j \in 1..(i - 1) : trainings[j] # "idle"
       /\ trainings' = [trainings EXCEPT ![i] = "pending"]
  /\ isTraining' = TRUE
  /\ UNCHANGED <<engineProducts, engineSelectedProductId, selectedModel,
                 predictionHorizon, includeExternalFactors, confidenceLevel,
                 refetches>>

\* the setTimeout callback of handleTrainModel:
\* setIsTraining(false); refetchPredictions()
TrainTimerFire(i) ==
  /\ trainings[i] = "pending"
  /\ trainings' = [trainings EXCEPT ![i] = "fired"]
  /\ isTraining' = FALSE
  /\ refetches' = [refetches EXCEPT ![i] = @ + 1]
  /\ UNCHANGED <<engineProducts, engineSelectedProductId, selectedModel,
                 predictionHorizon, includeExternalFactors, confidenceLevel>>

EngineInit ==
  /\ engineProducts = <<>>
  /\ engineSelectedProductId = NULL
  /\ selectedModel = "ensemble"
  /\ predictionHorizon = 30
  /\ isTraining = FALSE
  /\ includeExternalFactors = TRUE
  /\ confidenceLevel = 90
  /\ trainings = [i \in 1..MaxTrainings |-> "idle"]
  /\ refetches = [i \in 1..MaxTrainings |-> 0]

\* ========================================================== specifications
vars == <<formVars, boardVars, optVars, fetchVars, engineVars>>

Init == FormInit /\ BoardInit /\ OptimizerInit /\ FetchInit /\ EngineInit

FormNext ==
  \/ \E name \in {"title", "description", "examples", "goals"}, value \in FieldValues :
       handleChange(name, value) /\ UNCHANGED <<boardVars, optVars, fetchVars, engineVars>>
  \/ \E name \in {"budget", "timeline"}, raw \in SliderRaw :
       handleSliderChange(name, raw) /\ UNCHANGED <<boardVars, optVars, fetchVars, engineVars>>
  \/ handleSubmit /\ UNCHANGED <<boardVars, optVars, fetchVars, engineVars>>
  \/ \E i \in 1..MaxSubmits : SubmitTimerFire(i) /\ UNCHANGED <<boardVars, optVars, fetchVars, engineVars>>
  \/ nextStep /\ UNCHANGED <<boardVars, optVars, fetchVars, engineVars>>
  \/ prevStep /\ UNCHANGED <<boardVars, optVars, fetchVars, engineVars>>

FormSpec == Init /\ [][FormNext]_vars

\* a timer that was armed fires: the event loop runs every due callback
FormFairSpec == FormSpec /\ \A i \in 1..MaxSubmits : WF_vars(SubmitTimerFire(i) /\ UNCHANGED <<boardVars, optVars, fetchVars, engineVars>>)

BoardNext ==
  \/ \E taskId \in TaskIds : handleApply(taskId) /\ UNCHANGED <<formVars, optVars, fetchVars, engineVars>>
  \/ \E tab \in {"all", "matched", "applied"} : selectTab(tab) /\ UNCHANGED <<formVars, optVars, fetchVars, engineVars>>

BoardSpec == Init /\ [][BoardNext]_vars

ProductIds == {Optimizer_fetchProducts[k].id : k \in 1..Len(Optimizer_fetchProducts)}

OptimizerNext ==
  \/ productsLoaded /\ UNCHANGED <<formVars, boardVars, fetchVars, engineVars>>
  \/ \E p \in ProductIds : selectProduct(p) /\ UNCHANGED <<formVars, boardVars, fetchVars, engineVars>>
  \/ \E raw \in ServiceRaw : changeServiceLevel(raw) /\ UNCHANGED <<formVars, boardVars, fetchVars, engineVars>>
  \/ \E txt \in LeadTimeTexts : changeLeadTime(txt) /\ UNCHANGED <<formVars, boardVars, fetchVars, engineVars>>
  \/ handleOptimize /\ UNCHANGED <<formVars, boardVars, fetchVars, engineVars>>
  \/ \E c \in inflight : optimizeResolved(c) /\ UNCHANGED <<formVars, boardVars, fetchVars, engineVars>>
  \/ resetClicked /\ UNCHANGED <<formVars, boardVars, fetchVars, engineVars>>

OptimizerSpec == Init /\ [][OptimizerNext]_vars

\* the timer of optimizeStock fires and resolves the promise, and the
\* continuation of handleOptimize then runs
OptimizerFairSpec ==
  OptimizerSpec /\ WF_vars(\E c \in inflight : optimizeResolved(c) /\ UNCHANGED <<formVars, boardVars, fetchVars, engineVars>>)

\* StockOptimizer with an optimizeStock whose promise may also reject, the
\* outcome the try / catch / finally of handleOptimize is written for
OptimizerFailNext ==
  \/ OptimizerNext
  \/ \E c \in inflight : optimizeRejected(c) /\ UNCHANGED <<formVars, boardVars, fetchVars, engineVars>>

OptimizerFailSpec == Init /\ [][OptimizerFailNext]_vars

\* StockOptimizer and InventoryDashboard on one query cache
SharedCacheNext ==
  \/ OptimizerNext
  \/ dashboardProductsLoaded /\ UNCHANGED <<formVars, boardVars, fetchVars, engineVars>>

SharedCacheSpec == Init /\ [][SharedCacheNext]_vars

FetchNext ==
  \/ \E fn \in FetchNames :
       \E args \in FetchArgs(fn), rnd \in [1..RandomCalls(fn) -> RandomDraws] :
         callFetch(fn, args, rnd) /\ UNCHANGED <<formVars, boardVars, optVars, engineVars>>
  \/ dayPasses /\ UNCHANGED <<formVars, boardVars, optVars, engineVars>>

FetchSpec == Init /\ [][FetchNext]_vars

EngineNext ==
  \/ engineProductsLoaded /\ UNCHANGED <<formVars, boardVars, optVars, fetchVars>>
  \/ \E p \in EngineProductIds : engineSelectProduct(p) /\ UNCHANGED <<formVars, boardVars, optVars, fetchVars>>
  \/ \E m \in EngineModels : engineSelectModel(m) /\ UNCHANGED <<formVars, boardVars, optVars, fetchVars>>
  \/ \E raw \in HorizonRaw : changeHorizon(raw) /\ UNCHANGED <<formVars, boardVars, optVars, fetchVars>>
  \/ \E raw \in ConfidenceRaw : changeConfidence(raw) /\ UNCHANGED <<formVars, boardVars, optVars, fetchVars>>
  \/ toggleExternalFactors /\ UNCHANGED <<formVars, boardVars, optVars, fetchVars>>
  \/ handleTrainModel /\ UNCHANGED <<formVars, boardVars, optVars, fetchVars>>
  \/ \E i \in 1..MaxTrainings : TrainTimerFire(i) /\ UNCHANGED <<formVars, boardVars, optVars, fetchVars>>

EngineSpec == Init /\ [][EngineNext]_vars

\* ================================================================== claims

\* C1: whenever the timer started by handleSubmit fires, formData is back at
\* its initial values and step is 1, whatever was edited or navigated before.
C1_TimerResetsForm ==
  [][\A i \in 1..MaxSubmits :
       (submits[i] = "pending" /\ submits'[i] = "fired")
         => (formData' = InitialFormData /\ step' = 1)]_vars

\* C1 witness: a timer has fired after edits during its delay and the form is reset
C1_Witness ==
  /\ \E i \in 1..MaxSubmits : submits[i] = "fired"
  /\ editedWhilePending
  /\ formData = InitialFormData
  /\ step = 1

\* C2: every task id occurs in appliedTasks at most once, and applying an id
\* that is not yet applied adds exactly one occurrence of it.
C2_AppliedOnce ==
  /\ [](\A t \in TaskIds : Occurrences(appliedTasks, t) <= 1)
  /\ [][boardToasts' # boardToasts =>
         \E t \in TaskIds :
           /\ Occurrences(appliedTasks, t) = 0
           /\ Occurrences(appliedTasks', t) = 1
           /\ \A u \in TaskIds \ {t} :
                Occurrences(appliedTasks', u) = Occurrences(appliedTasks, u)]_vars

\* C2 witness: every task has been applied for
C2_Witness == Len(appliedTasks) = Len(MOCK_TASKS) /\ boardToasts = Len(MOCK_TASKS)

\* C3: the budget value stays within [100, 10000].
C3_BudgetInRange == formData.budget[1] >= 100 /\ formData.budget[1] <= 10000

\* C3 witness: the slider was driven to (or past) an end of its range
C3_Witness == formData.budget[1] \in {100, 10000}

\* C4: step is always one of 1, 2, 3.
C4_StepInRange == step \in {1, 2, 3}

\* C4 witness: the last step is shown again after a completed submission
C4_Witness == step = 3 /\ \E i \in 1..MaxSubmits : submits[i] = "fired"

\* C5: a started submission cannot be cancelled: it leads to isSubmitting =
\* false with exactly one success toast for that submit, whatever navigation
\* or edits happen during the delay.
C5_SubmitCompletes ==
  \A i \in 1..MaxSubmits :
    /\ [](toasts[i] <= 1)
    /\ [](submits[i] = "pending" => <>(~isSubmitting /\ toasts[i] = 1))

\* C5 witness: a submission completed although the form was used during the delay
C5_Witness ==
  /\ ~isSubmitting
  /\ editedWhilePending
  /\ \E i \in 1..MaxSubmits : submits[i] = "fired" /\ toasts[i] = 1

\* C8: handleSubmit starts a submission only when title and description are
\* both non-empty.
C8_RequiredFields ==
  [][(\E i \in 1..MaxSubmits : submits[i] = "idle" /\ submits'[i] = "pending")
       => (formData.title # "" /\ formData.description # "")]_vars

\* C7: if the optimizeStock call of handleOptimize fails, the error is only
\* logged: neither starting the call nor handling its failure changes
\* optimizationResult, selectedProductId, serviceLevel or customLeadTime, and
\* handling the failure sets isOptimizing back to false.
C7_FailureOnlyLogged ==
  [][/\ (nStarted' # nStarted \/ errorLog' # errorLog)
          => UNCHANGED <<optimizationResult, selectedProductId, serviceLevel, customLeadTime>>
     /\ errorLog' # errorLog => (isOptimizing /\ ~isOptimizing')]_vars

\* C7 witness: a call failed while a result of an earlier call was shown
C7_Witness ==
  /\ errorLog > 0
  /\ ~isOptimizing
  /\ optimizationResult # NULL
  /\ customLeadTime # NULL

\* C9: a non-null optimizationResult belongs to the selected product.
C9_ResultMatchesSelection ==
  optimizationResult # NULL => Num(optimizationResult.product_id) = selectedProductId

\* C10: after resetOptimization, optimizationResult stays null until an
\* optimization started after that reset completes.
C10_NoResultFromBeforeReset ==
  optimizationResult # NULL => resultCall > callsAtReset

\* the mock fetch functions whose result depends on the clock and Math.random
GeneratedFetches == {"Engine_fetchPredictions", "fetchSalesTimeSeries"}

\* C6 (as stated): any two calls of the same mock fetch function with the
\* same arguments resolve to equal record lists.
C6_AllFetchesConstant ==
  (firstCall # NULL /\ secondCall # NULL) => firstCall.data = secondCall.data

\* C6 (amended): two calls of the same mock fetch function with the same
\* arguments resolve to equal record lists, except for fetchSalesTimeSeries
\* and the fetchPredictions of AIPredictionEngine.
C6_LiteralFetchesConstant ==
  (firstCall # NULL /\ secondCall # NULL /\ firstCall.fn \notin GeneratedFetches)
    => firstCall.data = secondCall.data

\* C6 witness: a literal fetch function was called twice, on different days
C6_Witness ==
  /\ firstCall # NULL
  /\ secondCall # NULL
  /\ firstCall.fn = "fetchSalesData"
  /\ today > StartDay

\* C11: no submission starts while isSubmitting is true: at any time at most
\* one submit timer is pending.
C11_OneTimerPending == Cardinality(PendingSubmits) <= 1

\* C12: isOptimizing is true exactly while an optimizeStock call started by
\* handleOptimize is unresolved, at most one such call is in flight, and every
\* started call is eventually resolved with isOptimizing back at false.
C12_OptimizingWhileInFlight ==
  /\ [](isOptimizing <=> inflight # {})
  /\ [](Cardinality(inflight) <= 1)
  /\ \A n \in 1..MaxOptimizations :
       (\E c \in inflight : c.call = n)
         ~> (~isOptimizing /\ nStarted >= n /\ \A c \in inflight : c.call # n)

\* C12 witness: a second optimization was started after the first one had
\* resolved, and it has resolved too
C12_Witness ==
  /\ nStarted >= 2
  /\ resultCall = nStarted
  /\ ~isOptimizing
  /\ inflight = {}

\* C13: handleTrainModel starts only when a product is selected and
\* isTraining is false; isTraining then stays true until the timer of that
\* run fires, and the firing leaves isTraining false with exactly one
\* predictions refetch issued for the run.
C13_TrainingRun ==
  /\ [][(\E i \in 1..MaxTrainings : trainings[i] = "idle" /\ trainings'[i] = "pending")
         => (Truthy(engineSelectedProductId) /\ ~isTraining /\ isTraining')]_vars
  /\ [](\A i \in 1..MaxTrainings :
          /\ trainings[i] = "pending" => (isTraining /\ refetches[i] = 0)
          /\ trainings[i] = "idle" => refetches[i] = 0
          /\ trainings[i] = "fired" => refetches[i] = 1)
  /\ [][\A i \in 1..MaxTrainings :
          (trainings[i] = "pending" /\ trainings'[i] = "fired") => ~isTraining']_vars
  /\ [][(isTraining /\ ~isTraining')
         => \E i \in 1..MaxTrainings : trainings[i] = "pending" /\ trainings'[i] = "fired"]_vars

\* C13 witness: a second run is training after the first one completed with
\* its refetch, and the selection was changed since
C13_Witness ==
  /\ trainings[1] = "fired"
  /\ refetches[1] = 1
  /\ trainings[2] = "pending"
  /\ isTraining
  /\ selectedModel # "ensemble"

\* C14: every optimizeStock call of handleOptimize gets a defined lead time,
\* so the default branch of optimizeStock is never taken, also when the
\* products come from the query cache shared with InventoryDashboard.
C14_LeadTimeDefined == \A c \in inflight : Truthy(c.leadTime)

\* C15: the lead time handleOptimize passes to optimizeStock is customLeadTime
\* whenever customLeadTime is non-null, and the selected product's lead_time
\* otherwise.
C15_CustomLeadTimeUsed ==
  [][\A c \in inflight' \ inflight :
       c.leadTime = IF customLeadTime # NULL THEN customLeadTime ELSE selectedLeadTime]_vars

\* C16: customLeadTime is null or an integer >= 1, every lead time used in
\* an optimization is >= 1, and every resulting reorder_point is positive.
C16_LeadTimeAtLeastOne ==
  /\ customLeadTime = NULL \/ (customLeadTime.kind = "number" /\ customLeadTime.val >= 1)
  /\ \A c \in inflight : c.leadTime.kind = "number" /\ c.leadTime.val >= 1
  /\ optimizationResult # NULL => optimizationResult.reorder_point > 0

\* C17: the Applied tab shows the empty-state message exactly when
\* appliedTasks is empty; otherwise it shows exactly the MOCK_TASKS entries
\* whose id is in appliedTasks, each once and in MOCK_TASKS order, whatever
\* the order in which they were applied.
C17_AppliedTabShowsAppliedTasks ==
  activeTab = "applied" =>
    LET shown == AppliedTabContent
        pos(t) == CHOOSE k \in 1..Len(MOCK_TASKS) : MOCK_TASKS[k] = t
    IN  /\ shown.empty <=> appliedTasks = <<>>
        /\ shown.empty => shown.cards = <<>>
        /\ ~shown.empty =>
             /\ \A t \in TaskIds :
                  Occurrences(shown.cards, t) = IF Includes(appliedTasks, t) THEN 1 ELSE 0
             /\ \A i, j \in 1..Len(shown.cards) :
                  i < j => pos(shown.cards[i]) < pos(shown.cards[j])

\* C17 witness: the Applied tab is open after two tasks were applied for in
\* the reverse of their MOCK_TASKS order
C17_Witness ==
  /\ activeTab = "applied"
  /\ appliedTasks = <<"task-003", "task-001">>
  /\ AppliedTabContent.cards = <<"task-001", "task-003">>
====
